---- MODULE Spec2Model ----
(***************************************************************************)
(* Model of the two dialogs of the widget sidebar:                         *)
(*   ListCreatorDialog  (src/src/views/dialogs/list_creator_dialog.py)     *)
(*   SpeedDialDialog    (src/src/views/speed_dial_dialog.py)               *)
(* Strings are sequences of one-character strings, so that strip(),        *)
(* split(',') and len() are computed the way Python computes them.         *)
(***************************************************************************)
EXTENDS Integers, Sequences, FiniteSets, TLC

VARIABLES
    step_widgets,           \* self.step_widgets: the ordered StepItemWidgets
    name_input,             \* self.name_input.text()
    name_validation_label,  \* self.name_validation_label.text()
    common_tags_input,      \* self.common_tags_input.text()
    categories,             \* item data of self.category_combo, in order
    current_index,          \* self.category_combo.currentIndex(), 0-based, -1 if none
    dialog,                 \* "open", "accepted" or "rejected"
    last,                   \* what the most recent handler did (see Idle)
    speed_dial_data,        \* SpeedDialDialog.speed_dial_data: None (<<>>) or a record
    is_edit_mode,           \* SpeedDialDialog.is_edit_mode
    title_input,            \* self.title_input.text()
    url_input,              \* self.url_input.text()
    icon_input,             \* self.icon_input.text()
    selected_color,         \* self.selected_color
    sd_dialog,              \* the speed dial dialog: "open", "accepted" or "rejected"
    sd_last                 \* what its most recent handler did (see SdIdle)

\* the list creator dialog
list_vars == <<step_widgets, name_input, name_validation_label, common_tags_input,
               categories, current_index, dialog, last>>

\* the speed dial dialog
sd_vars == <<speed_dial_data, is_edit_mode, title_input, url_input, icon_input,
             selected_color, sd_dialog, sd_last>>

vars == <<list_vars, sd_vars>>

form == <<step_widgets, name_input, name_validation_label, common_tags_input,
          categories, current_index>>

----------------------------------------------------------------------------
(* Bounds of the model *)

\* steps explored in SpecSteps, where only the step collection is operated on
MaxSteps == 3

\* steps explored in Spec, where the whole form is operated on
MaxFormSteps == 2

\* length of the common tags texts enumerated in SpecTags
MaxTagLen == 4

(* Program constants *)

MaxNameLength == 100

InitialSteps == 2

----------------------------------------------------------------------------
(* Python string and list primitives *)

Range(s) == {s[i] : i \in 1..Len(s)}

Rep(c, n) == [i \in 1..n |-> c]

RECURSIVE LStrip(_)
LStrip(s) == IF s # <<>> /\ Head(s) = " " THEN LStrip(Tail(s)) ELSE s

RECURSIVE RStrip(_)
RStrip(s) == IF s # <<>> /\ s[Len(s)] = " " THEN RStrip(SubSeq(s, 1, Len(s) - 1)) ELSE s

Strip(s) == RStrip(LStrip(s))

\* str.split(','): the pieces between commas, empty pieces included
RECURSIVE Split(_)
Split(s) ==
    IF \A i \in 1..Len(s) : s[i] # ","
    THEN <<s>>
    ELSE LET k == CHOOSE i \in 1..Len(s) : s[i] = "," /\ \A j \in 1..(i - 1) : s[j] # ","
         IN  <<SubSeq(s, 1, k - 1)>> \o Split(SubSeq(s, k + 1, Len(s)))

\* list.index(x) as a 1-based position
IndexOf(seq, id) == CHOOSE i \in 1..Len(seq) : seq[i].id = id

\* list.remove(x) for the element at 1-based position i
RemoveAt(seq, i) == SubSeq(seq, 1, i - 1) \o SubSeq(seq, i + 1, Len(seq))

\* a[i], a[j] = a[j], a[i]
Swap(seq, i, j) ==
    [k \in 1..Len(seq) |-> IF k = i THEN seq[j] ELSE IF k = j THEN seq[i] ELSE seq[k]]

----------------------------------------------------------------------------
(* Texts *)

TxtLista == <<"l", "i", "s", "t", "a">>
TxtDeploy == <<"D", "e", "p", "l", "o", "y">>
TxtNightly == <<"N", "i", "g", "h", "t", "l", "y">>
TxtBuild == <<"B", "u", "i", "l", "d">>
TxtExampleTags ==
    <<"g", "i", "t", ",", " ", "D", "e", "p", "l", "o", "y", ",", " ", "p", "r", "o", "d">>

MsgMinSteps == "Debe haber al menos 1 paso en la lista"
MsgNameEmpty == "El nombre de la lista no puede estar vacio"
MsgNameTooLong == "El nombre es demasiado largo (maximo 100 caracteres)"
MsgNoCategory == "Debe seleccionar una categoria"
MsgNoSteps == "Debe haber al menos 1 paso con nombre"

LblEmpty == "El nombre no puede estar vacio"
LblTooLong == "El nombre es demasiado largo (max 100 caracteres)"
LblNotUnique == "Ya existe una lista con este nombre en la categoria"

----------------------------------------------------------------------------
(* The record of the most recent handler run: the widget it was given      *)
(* (arg) and the 0-based index it found it at, the message box it showed   *)
(* (box, msg), what it returned (valid, msg, payload), the calls it made   *)
(* to list_controller.create_list (call) with what came back (result,      *)
(* item_ids), the list_created emissions (emit), whether an exception left *)
(* the handler (escaped) and whether is_list_name_unique was asked.        *)

Idle ==
    [op |-> "init", arg |-> 0, index |-> 0, box |-> "none", msg |-> "", valid |-> TRUE,
     payload |-> <<>>, call |-> <<>>, result |-> "none", item_ids |-> <<>>,
     emit |-> <<>>, escaped |-> FALSE, queried |-> FALSE]

Did(op, arg) == [Idle EXCEPT !.op = op, !.arg = arg]

----------------------------------------------------------------------------
(* Step collection *)

WidgetIds == {step_widgets[i].id : i \in 1..Len(step_widgets)}

\* a new Python object: an identity no live widget has
NewId(seq) == CHOOSE n \in 1..(Len(seq) + 1) : \A i \in 1..Len(seq) : seq[i].id # n

StepItemWidget(id, step_number) == [id |-> id, label |-> <<>>, number |-> step_number]

\* mutant: the renumbering is forgotten
update_step_numbers_skipped(seq) == seq

update_step_numbers(seq) == [i \in 1..Len(seq) |-> [seq[i] EXCEPT !.number = i]]

append_step(seq) ==
    update_step_numbers(Append(seq, StepItemWidget(NewId(seq), Len(seq) + 1)))

\* explored while the dialog holds fewer than limit steps
add_step(limit) ==
    /\ dialog = "open"
    /\ UNCHANGED sd_vars
    /\ Len(step_widgets) < limit
    /\ step_widgets' = append_step(step_widgets)
    /\ last' = Did("add_step", NewId(step_widgets))
    /\ UNCHANGED <<name_input, name_validation_label, common_tags_input,
                   categories, current_index, dialog>>

\* mutant: the floor is tested with < instead of <=
delete_step_no_floor(w) ==
    /\ dialog = "open"
    /\ UNCHANGED sd_vars
    /\ IF Len(step_widgets) < 1
       THEN /\ last' = [Did("delete_step", w) EXCEPT !.box = "warning", !.msg = MsgMinSteps]
            /\ UNCHANGED step_widgets
       ELSE /\ step_widgets' =
                   update_step_numbers(RemoveAt(step_widgets, IndexOf(step_widgets, w)))
            /\ last' = Did("delete_step", w)
    /\ UNCHANGED <<name_input, name_validation_label, common_tags_input,
                   categories, current_index, dialog>>

delete_step(w) ==
    /\ dialog = "open"
    /\ UNCHANGED sd_vars
    /\ IF Len(step_widgets) <= 1
       THEN /\ last' = [Did("delete_step", w) EXCEPT !.box = "warning", !.msg = MsgMinSteps]
            /\ UNCHANGED step_widgets
       ELSE /\ step_widgets' =
                   update_step_numbers(RemoveAt(step_widgets, IndexOf(step_widgets, w)))
            /\ last' = Did("delete_step", w)
    /\ UNCHANGED <<name_input, name_validation_label, common_tags_input,
                   categories, current_index, dialog>>

\* mutant: the test for the first entry is missing, and index - 1 wraps to the end
move_step_up_wrapping(w) ==
    /\ dialog = "open"
    /\ UNCHANGED sd_vars
    /\ LET index == IndexOf(step_widgets, w)
           other == IF index = 1 THEN Len(step_widgets) ELSE index - 1
       IN  step_widgets' = update_step_numbers(Swap(step_widgets, index, other))
    /\ last' = [Did("move_step_up", w) EXCEPT !.index = IndexOf(step_widgets, w) - 1]
    /\ UNCHANGED <<name_input, name_validation_label, common_tags_input,
                   categories, current_index, dialog>>

move_step_up(w) ==
    /\ dialog = "open"
    /\ UNCHANGED sd_vars
    /\ LET index == IndexOf(step_widgets, w)
       IN  IF index = 1
           THEN UNCHANGED step_widgets
           ELSE step_widgets' = update_step_numbers(Swap(step_widgets, index, index - 1))
    /\ last' = [Did("move_step_up", w) EXCEPT !.index = IndexOf(step_widgets, w) - 1]
    /\ UNCHANGED <<name_input, name_validation_label, common_tags_input,
                   categories, current_index, dialog>>

\* mutant: the swap of move_step_up copied unchanged, index - 1 wrapping to the end
move_step_down_upwards(w) ==
    /\ dialog = "open"
    /\ UNCHANGED sd_vars
    /\ LET index == IndexOf(step_widgets, w)
           other == IF index = 1 THEN Len(step_widgets) ELSE index - 1
       IN  IF index >= Len(step_widgets)
           THEN UNCHANGED step_widgets
           ELSE step_widgets' = update_step_numbers(Swap(step_widgets, index, other))
    /\ last' = [Did("move_step_down", w) EXCEPT !.index = IndexOf(step_widgets, w) - 1]
    /\ UNCHANGED <<name_input, name_validation_label, common_tags_input,
                   categories, current_index, dialog>>

move_step_down(w) ==
    /\ dialog = "open"
    /\ UNCHANGED sd_vars
    /\ LET index == IndexOf(step_widgets, w)
       IN  IF index >= Len(step_widgets)
           THEN UNCHANGED step_widgets
           ELSE step_widgets' = update_step_numbers(Swap(step_widgets, index, index + 1))
    /\ last' = [Did("move_step_down", w) EXCEPT !.index = IndexOf(step_widgets, w) - 1]
    /\ UNCHANGED <<name_input, name_validation_label, common_tags_input,
                   categories, current_index, dialog>>

----------------------------------------------------------------------------
(* Form fields *)

\* self.category_combo.currentData(): None (<<>>) when nothing is selected
currentData ==
    IF current_index = -1 THEN <<>> ELSE <<categories[current_index + 1]>>

\* Python truth value of an Optional[int]: None and 0 are false
Truthy(opt) == opt # <<>> /\ opt[1] # 0

\* the user edits the label field of one step (data_changed -> update_create_button_text)
edit_step_label(w, text) ==
    /\ dialog = "open"
    /\ UNCHANGED sd_vars
    /\ step_widgets' = [step_widgets EXCEPT ![IndexOf(step_widgets, w)].label = text]
    /\ last' = Did("edit_step_label", 0)
    /\ UNCHANGED <<name_input, name_validation_label, common_tags_input,
                   categories, current_index, dialog>>

\* textChanged of the name field; unique is what is_list_name_unique answers if asked
on_name_changed(text, unique) ==
    /\ dialog = "open"
    /\ UNCHANGED sd_vars
    /\ name_input' = text
    /\ LET category_id == currentData
           asks == Strip(text) # <<>> /\ Len(text) <= MaxNameLength
                   /\ Truthy(category_id)
       IN  /\ name_validation_label' =
                 IF Strip(text) = <<>> THEN LblEmpty
                 ELSE IF Len(text) > MaxNameLength THEN LblTooLong
                 ELSE IF asks /\ ~unique THEN LblNotUnique
                 ELSE ""
           /\ last' = [Did("on_name_changed", 0) EXCEPT !.queried = asks]
    /\ UNCHANGED <<step_widgets, common_tags_input, categories, current_index, dialog>>

\* the user edits the common tags field (or on_tag_group_changed sets it)
edit_common_tags(text) ==
    /\ dialog = "open"
    /\ UNCHANGED sd_vars
    /\ common_tags_input' = text
    /\ last' = Did("edit_common_tags", 0)
    /\ UNCHANGED <<step_widgets, name_input, name_validation_label,
                   categories, current_index, dialog>>

\* the user picks an entry of the category combo box
select_category(i) ==
    /\ dialog = "open"
    /\ UNCHANGED sd_vars
    /\ current_index' = i
    /\ last' = Did("select_category", i)
    /\ UNCHANGED <<step_widgets, name_input, name_validation_label, common_tags_input,
                   categories, dialog>>

----------------------------------------------------------------------------
(* StepItemWidget accessors *)

has_label(w) == Strip(w.label) # <<>>

get_step_data(w) == [label |-> Strip(w.label)]

----------------------------------------------------------------------------
(* validate_form *)

\* mutant: a name reported as taken by the live check makes the form invalid
validate_form_result_checking_unique ==
    LET list_name == Strip(name_input)
        category_id == currentData
        valid_steps == SelectSeq(step_widgets, has_label)
    IN  IF list_name = <<>> THEN [valid |-> FALSE, msg |-> MsgNameEmpty]
        ELSE IF Len(list_name) > MaxNameLength THEN [valid |-> FALSE, msg |-> MsgNameTooLong]
        ELSE IF ~Truthy(category_id) THEN [valid |-> FALSE, msg |-> MsgNoCategory]
        ELSE IF name_validation_label = LblNotUnique
        THEN [valid |-> FALSE, msg |-> LblNotUnique]
        ELSE IF Len(valid_steps) = 0 THEN [valid |-> FALSE, msg |-> MsgNoSteps]
        ELSE [valid |-> TRUE, msg |-> ""]

validate_form_result ==
    LET list_name == Strip(name_input)
        category_id == currentData
        valid_steps == SelectSeq(step_widgets, has_label)
    IN  IF list_name = <<>> THEN [valid |-> FALSE, msg |-> MsgNameEmpty]
        ELSE IF Len(list_name) > MaxNameLength THEN [valid |-> FALSE, msg |-> MsgNameTooLong]
        ELSE IF ~Truthy(category_id) THEN [valid |-> FALSE, msg |-> MsgNoCategory]
        ELSE IF Len(valid_steps) = 0 THEN [valid |-> FALSE, msg |-> MsgNoSteps]
        ELSE [valid |-> TRUE, msg |-> ""]

validate_form ==
    /\ dialog = "open"
    /\ UNCHANGED sd_vars
    /\ last' = [Did("validate_form", 0) EXCEPT !.valid = validate_form_result.valid,
                                               !.msg = validate_form_result.msg]
    /\ UNCHANGED form
    /\ UNCHANGED dialog

----------------------------------------------------------------------------
(* get_steps_data *)

\* [tag.strip() for tag in common_tags_str.split(',') if tag.strip()]
parse_common_tags(text) ==
    LET common_tags_str == Strip(text)
        pieces == Split(common_tags_str)
        stripped == [i \in 1..Len(pieces) |-> Strip(pieces[i])]
        NonEmpty(t) == t # <<>>
    IN  IF common_tags_str = <<>> THEN <<>> ELSE SelectSeq(stripped, NonEmpty)

auto_tags(text) ==
    LET list_name == Strip(text)
    IN  IF list_name # <<>> THEN <<TxtLista, list_name>> ELSE <<TxtLista>>

\* mutant: only the automatic tags are tested for duplicates
merge_tags_against_auto(final_tags, common_tags_list) ==
    LET Fresh(tag) == tag \notin Range(final_tags)
    IN  final_tags \o SelectSeq(common_tags_list, Fresh)

\* for tag in common_tags_list: if tag not in final_tags: final_tags.append(tag)
RECURSIVE merge_tags(_, _)
merge_tags(final_tags, common_tags_list) ==
    IF common_tags_list = <<>> THEN final_tags
    ELSE LET tag == Head(common_tags_list)
         IN  merge_tags(IF tag \in Range(final_tags) THEN final_tags
                        ELSE Append(final_tags, tag),
                        Tail(common_tags_list))

final_tags_of(name, tags_text) == merge_tags(auto_tags(name), parse_common_tags(tags_text))

\* mutant: the test of the label is missing
collect_steps_unfiltered(widgets, final_tags) ==
    [i \in 1..Len(widgets) |->
        [label |-> get_step_data(widgets[i]).label, tags |-> final_tags]]

RECURSIVE collect_steps(_, _)
collect_steps(widgets, final_tags) ==
    IF widgets = <<>> THEN <<>>
    ELSE LET data == get_step_data(Head(widgets))
             rest == collect_steps(Tail(widgets), final_tags)
         IN  IF data.label # <<>>
             THEN <<[label |-> data.label, tags |-> final_tags]>> \o rest
             ELSE rest

get_steps_data_result ==
    collect_steps(step_widgets, final_tags_of(name_input, common_tags_input))

\* mutant: the steps without a label are dropped from the dialog while collecting
get_steps_data_pruning ==
    /\ dialog = "open"
    /\ UNCHANGED sd_vars
    /\ last' = [Did("get_steps_data", 0) EXCEPT !.payload = get_steps_data_result]
    /\ step_widgets' = update_step_numbers(SelectSeq(step_widgets, has_label))
    /\ UNCHANGED <<name_input, name_validation_label, common_tags_input,
                   categories, current_index, dialog>>

get_steps_data ==
    /\ dialog = "open"
    /\ UNCHANGED sd_vars
    /\ last' = [Did("get_steps_data", 0) EXCEPT !.payload = get_steps_data_result]
    /\ UNCHANGED form
    /\ UNCHANGED dialog

----------------------------------------------------------------------------
(* create_list: the handler of the "Crear Lista" button *)

\* what list_controller.create_list may do: return (True, message, item_ids),
\* return (False, message, []) or raise
Outcomes ==
    {[kind |-> "success", message |-> "ok", item_ids |-> <<42>>],
     [kind |-> "success", message |-> "ok", item_ids |-> <<42, 43>>],
     [kind |-> "failure", message |-> "no se pudo crear", item_ids |-> <<>>],
     [kind |-> "raise", message |-> "", item_ids |-> <<>>]}

\* mutant: the return after the validation warning is missing
create_list_no_return(outcome) ==
    /\ dialog = "open"
    /\ UNCHANGED sd_vars
    /\ UNCHANGED form
    /\ LET v == validate_form_result
           list_name == Strip(name_input)
           category_id == currentData
           steps_data == get_steps_data_result
           warned == IF v.valid THEN Did("create_list", 0)
                     ELSE [Did("create_list", 0) EXCEPT !.valid = FALSE]
           called == [warned EXCEPT
                          !.payload = steps_data,
                          !.call = <<[category_id |-> IF category_id = <<>> THEN 0
                                                      ELSE category_id[1],
                                      list_name |-> list_name,
                                      items_data |-> steps_data]>>,
                          !.result = outcome.kind,
                          !.item_ids = outcome.item_ids]
       IN  IF outcome.kind = "raise"
           THEN /\ last' = [called EXCEPT !.escaped = TRUE]
                /\ UNCHANGED dialog
           ELSE IF outcome.kind = "success"
           THEN /\ last' = [called EXCEPT
                                !.box = "information", !.msg = outcome.message,
                                !.emit = <<[list_name |-> list_name,
                                            category_id |-> called.call[1].category_id,
                                            item_ids |-> outcome.item_ids]>>]
                /\ dialog' = "accepted"
           ELSE /\ last' = [called EXCEPT !.box = "critical", !.msg = outcome.message]
                /\ UNCHANGED dialog

\* mutant: accept() is called after the if, so a failed creation closes the dialog too
create_list_always_accepts(outcome) ==
    /\ dialog = "open"
    /\ UNCHANGED sd_vars
    /\ UNCHANGED form
    /\ LET v == validate_form_result
           list_name == Strip(name_input)
           category_id == currentData
           steps_data == get_steps_data_result
           called == [Did("create_list", 0) EXCEPT
                          !.payload = steps_data,
                          !.call = <<[category_id |-> category_id[1],
                                      list_name |-> list_name,
                                      items_data |-> steps_data]>>,
                          !.result = outcome.kind,
                          !.item_ids = outcome.item_ids]
       IN  IF ~v.valid
           THEN /\ last' = [Did("create_list", 0) EXCEPT
                                !.valid = FALSE, !.box = "warning", !.msg = v.msg]
                /\ UNCHANGED dialog
           ELSE IF outcome.kind = "raise"
           THEN /\ last' = [called EXCEPT !.escaped = TRUE]
                /\ UNCHANGED dialog
           ELSE IF outcome.kind = "success"
           THEN /\ last' = [called EXCEPT
                                !.box = "information", !.msg = outcome.message,
                                !.emit = <<[list_name |-> list_name,
                                            category_id |-> category_id[1],
                                            item_ids |-> outcome.item_ids]>>]
                /\ dialog' = "accepted"
           ELSE /\ last' = [called EXCEPT !.box = "critical", !.msg = outcome.message]
                /\ dialog' = "accepted"

create_list(outcome) ==
    /\ dialog = "open"
    /\ UNCHANGED sd_vars
    /\ UNCHANGED form
    /\ LET v == validate_form_result
           list_name == Strip(name_input)
           category_id == currentData
           steps_data == get_steps_data_result
           called == [Did("create_list", 0) EXCEPT
                          !.payload = steps_data,
                          !.call = <<[category_id |-> category_id[1],
                                      list_name |-> list_name,
                                      items_data |-> steps_data]>>,
                          !.result = outcome.kind,
                          !.item_ids = outcome.item_ids]
       IN  IF ~v.valid
           THEN /\ last' = [Did("create_list", 0) EXCEPT
                                !.valid = FALSE, !.box = "warning", !.msg = v.msg]
                /\ UNCHANGED dialog
           ELSE IF outcome.kind = "raise"
           THEN /\ last' = [called EXCEPT !.escaped = TRUE]
                /\ UNCHANGED dialog
           ELSE IF outcome.kind = "success"
           THEN /\ last' = [called EXCEPT
                                !.box = "information", !.msg = outcome.message,
                                !.emit = <<[list_name |-> list_name,
                                            category_id |-> category_id[1],
                                            item_ids |-> outcome.item_ids]>>]
                /\ dialog' = "accepted"
           ELSE /\ last' = [called EXCEPT !.box = "critical", !.msg = outcome.message]
                /\ UNCHANGED dialog

\* the "Cancelar" button
reject ==
    /\ dialog = "open"
    /\ UNCHANGED sd_vars
    /\ dialog' = "rejected"
    /\ last' = Did("reject", 0)
    /\ UNCHANGED form

----------------------------------------------------------------------------
(* SpeedDialDialog *)

IconMaxLength == 2

TxtHttp == <<"h", "t", "t", "p", ":", "/", "/">>
TxtHttps == <<"h", "t", "t", "p", "s", ":", "/", "/">>
TxtExampleCom == <<"e", "x", "a", "m", "p", "l", "e", ".", "c", "o", "m">>
TxtXCom == <<"x", ".", "c", "o", "m">>
TxtGoogle == <<"G", "o", "o", "g", "l", "e">>

\* the default icon, one glyph
TxtGlobe == <<"globe">>

ColorDefault == "#16213e"
ColorRed == "#ff0000"

\* str.startswith(prefix)
StartsWith(s, prefix) ==
    Len(s) >= Len(prefix) /\ SubSeq(s, 1, Len(prefix)) = prefix

\* QLineEdit.setMaxLength: a longer text is cut
Truncate(s, n) == IF Len(s) > n THEN SubSeq(s, 1, n) ELSE s

\* dict.get(key, default) on an optional field
GetOr(field, default) == IF field = <<>> THEN default ELSE field[1]

\* `not self.speed_dial_data`: None or a dict without keys
EmptyData(data) ==
    \/ data = <<>>
    \/ /\ data[1].id = <<>> /\ data[1].title = <<>> /\ data[1].url = <<>>
       /\ data[1].icon = <<>> /\ data[1].background_color = <<>>

\* The record of the most recent handler run of the speed dial dialog: the
\* field that got the focus, what was logged, the calls of db.add_speed_dial
\* and db.update_speed_dial (call) with what came back (result, returned),
\* the speed_dial_added emissions, the order of these effects and of accept()
\* (effects), and whether an exception left the handler.
SdIdle ==
    [op |-> "init", focus |-> "none", logged |-> "none", call |-> <<>>,
     result |-> "none", returned |-> <<>>, emit |-> <<>>, effects |-> <<>>,
     escaped |-> FALSE]

SdDid(op) == [SdIdle EXCEPT !.op = op]

\* __init__ with its call of _load_data
SdConstructed(data) ==
    /\ speed_dial_data = data
    /\ is_edit_mode = (data # <<>>)
    /\ IF data # <<>> /\ ~EmptyData(data)
       THEN /\ title_input = GetOr(data[1].title, <<>>)
            /\ url_input = GetOr(data[1].url, <<>>)
            /\ icon_input = Truncate(GetOr(data[1].icon, TxtGlobe), IconMaxLength)
            /\ selected_color = GetOr(data[1].background_color, ColorDefault)
       ELSE /\ title_input = <<>>
            /\ url_input = <<>>
            /\ icon_input = <<>>
            /\ selected_color = ColorDefault
    /\ sd_dialog = "open"
    /\ sd_last = SdIdle

\* the user edits the title field
edit_title(text) ==
    /\ sd_dialog = "open"
    /\ title_input' = text
    /\ sd_last' = SdDid("edit_title")
    /\ UNCHANGED <<speed_dial_data, is_edit_mode, url_input, icon_input,
                   selected_color, sd_dialog>>
    /\ UNCHANGED list_vars

\* the user edits the URL field
edit_url(text) ==
    /\ sd_dialog = "open"
    /\ url_input' = text
    /\ sd_last' = SdDid("edit_url")
    /\ UNCHANGED <<speed_dial_data, is_edit_mode, title_input, icon_input,
                   selected_color, sd_dialog>>
    /\ UNCHANGED list_vars

\* the user edits the icon field, which holds at most IconMaxLength characters
edit_icon(text) ==
    /\ sd_dialog = "open"
    /\ icon_input' = Truncate(text, IconMaxLength)
    /\ sd_last' = SdDid("edit_icon")
    /\ UNCHANGED <<speed_dial_data, is_edit_mode, title_input, url_input,
                   selected_color, sd_dialog>>
    /\ UNCHANGED list_vars

\* _choose_color: the colour dialog returns a colour, valid unless cancelled
choose_color(color, valid) ==
    /\ sd_dialog = "open"
    /\ selected_color' = IF valid THEN color ELSE selected_color
    /\ sd_last' = SdDid("_choose_color")
    /\ UNCHANGED <<speed_dial_data, is_edit_mode, title_input, url_input,
                   icon_input, sd_dialog>>
    /\ UNCHANGED list_vars

\* what db.add_speed_dial / db.update_speed_dial may do: return an id or True
\* (<<7>>, <<1>>), return 0 or False (<<0>>), return None (<<>>), or raise
SdOutcomes ==
    {[kind |-> "return", value |-> <<7>>],
     [kind |-> "return", value |-> <<1>>],
     [kind |-> "return", value |-> <<0>>],
     [kind |-> "return", value |-> <<>>],
     [kind |-> "raise", value |-> <<>>]}

\* mutant: only the http:// prefix is looked for
normalize_url_http_only(url) ==
    IF ~StartsWith(url, TxtHttp) THEN TxtHttps \o url ELSE url

\* if not url.startswith(('http://', 'https://')): url = 'https://' + url
normalize_url(url) ==
    IF ~(StartsWith(url, TxtHttp) \/ StartsWith(url, TxtHttps))
    THEN TxtHttps \o url
    ELSE url

\* mutant: the default glyph is forgotten
icon_without_default(text) == Strip(text)

\* icon = self.icon_input.text().strip() or default
icon_or_default(text) == IF Strip(text) = <<>> THEN TxtGlobe ELSE Strip(text)

\* mutant: the URL is validated before the title
first_invalid_field_url_first ==
    IF Strip(url_input) = <<>> THEN "url"
    ELSE IF Strip(title_input) = <<>> THEN "title"
    ELSE "none"

\* the two validations of _save_speed_dial, in their order
first_invalid_field ==
    IF Strip(title_input) = <<>> THEN "title"
    ELSE IF Strip(url_input) = <<>> THEN "url"
    ELSE "none"

\* mutant: the branch is chosen by whether the record carries an id
edit_branch_by_id == speed_dial_data # <<>> /\ speed_dial_data[1].id # <<>>

\* if self.is_edit_mode:
edit_branch == is_edit_mode

\* the handler of the save button
save_speed_dial(outcome) ==
    /\ sd_dialog = "open"
    /\ UNCHANGED <<speed_dial_data, is_edit_mode, title_input, url_input,
                   icon_input, selected_color>>
    /\ UNCHANGED list_vars
    /\ LET title == Strip(title_input)
           raw_url == Strip(url_input)
           icon == icon_or_default(icon_input)
           url == normalize_url(raw_url)
           did == SdDid("_save_speed_dial")
           called(fn, id) ==
               [did EXCEPT
                    !.call = <<[fn |-> fn, id |-> id, title |-> title, url |-> url,
                                icon |-> icon, background_color |-> selected_color]>>,
                    !.result = IF outcome.kind = "raise" THEN "raise"
                               ELSE IF Truthy(outcome.value) THEN "truthy" ELSE "falsy",
                    !.returned = outcome.value,
                    !.effects = <<"call">>]
       IN  IF first_invalid_field # "none"
           THEN /\ sd_last' = [did EXCEPT !.focus = first_invalid_field,
                                          !.logged = "warning"]
                /\ UNCHANGED sd_dialog
           ELSE IF edit_branch
           THEN IF speed_dial_data[1].id = <<>>
                THEN \* KeyError, caught by the except clause
                     /\ sd_last' = [did EXCEPT !.logged = "error"]
                     /\ UNCHANGED sd_dialog
                ELSE IF outcome.kind = "raise"
                THEN /\ sd_last' = [called("update_speed_dial", speed_dial_data[1].id)
                                        EXCEPT !.logged = "error"]
                     /\ UNCHANGED sd_dialog
                ELSE IF Truthy(outcome.value)
                THEN /\ sd_last' = [called("update_speed_dial", speed_dial_data[1].id)
                                        EXCEPT !.logged = "info",
                                               !.effects = <<"call", "accept">>]
                     /\ sd_dialog' = "accepted"
                ELSE /\ sd_last' = [called("update_speed_dial", speed_dial_data[1].id)
                                        EXCEPT !.logged = "error"]
                     /\ UNCHANGED sd_dialog
           ELSE IF outcome.kind = "raise"
                THEN /\ sd_last' = [called("add_speed_dial", <<>>) EXCEPT !.logged = "error"]
                     /\ UNCHANGED sd_dialog
                ELSE IF Truthy(outcome.value)
                THEN /\ sd_last' = [called("add_speed_dial", <<>>) EXCEPT
                                        !.logged = "info",
                                        !.emit = <<[id |-> outcome.value[1],
                                                    title |-> title, url |-> url,
                                                    icon |-> icon,
                                                    background_color |-> selected_color]>>,
                                        !.effects = <<"call", "emit", "accept">>]
                     /\ sd_dialog' = "accepted"
                ELSE /\ sd_last' = [called("add_speed_dial", <<>>) EXCEPT !.logged = "error"]
                     /\ UNCHANGED sd_dialog

\* the cancel button of the speed dial dialog
sd_reject ==
    /\ sd_dialog = "open"
    /\ sd_dialog' = "rejected"
    /\ sd_last' = SdDid("reject")
    /\ UNCHANGED <<speed_dial_data, is_edit_mode, title_input, url_input,
                   icon_input, selected_color>>
    /\ UNCHANGED list_vars

----------------------------------------------------------------------------
(* Inputs *)

StepLabels == {<<>>, <<" ">>, TxtBuild}

NameInputs ==
    {<<>>, <<" ">>, TxtNightly, Rep("a", MaxNameLength),
     Rep("a", MaxNameLength + 1), <<" ">> \o Rep("a", MaxNameLength) \o <<" ">>}

TagInputs == {<<>>, TxtExampleTags}

CategoryLists == {<<>>, <<3, 0>>}

\* the constructor's selected_category_id
Preselections == {<<>>, <<0>>, <<3>>}

\* the index the combo box shows after construction
InitialIndex(cats, selected) ==
    IF cats = <<>> THEN -1
    ELSE IF Truthy(selected) /\ \E i \in 1..Len(cats) : cats[i] = selected[1]
    THEN (CHOOSE i \in 1..Len(cats) :
              cats[i] = selected[1] /\ \A j \in 1..(i - 1) : cats[j] # selected[1]) - 1
    ELSE 0

RECURSIVE initial_steps(_)
initial_steps(n) == IF n = 0 THEN <<>> ELSE append_step(initial_steps(n - 1))

----------------------------------------------------------------------------

Init ==
    /\ step_widgets = initial_steps(InitialSteps)
    /\ name_input = <<>>
    /\ name_validation_label = ""
    /\ common_tags_input = <<>>
    /\ categories \in CategoryLists
    /\ \E selected \in Preselections : current_index = InitialIndex(categories, selected)
    /\ dialog = "open"
    /\ last = Idle
    /\ SdConstructed(<<>>)

Next ==
    \/ add_step(MaxFormSteps)
    \/ \E w \in WidgetIds : delete_step(w)
    \/ \E w \in WidgetIds : move_step_up(w)
    \/ \E w \in WidgetIds : move_step_down(w)
    \/ \E w \in WidgetIds, text \in StepLabels : edit_step_label(w, text)
    \/ \E text \in NameInputs, unique \in BOOLEAN : on_name_changed(text, unique)
    \/ \E text \in TagInputs : edit_common_tags(text)
    \/ \E i \in 0..(Len(categories) - 1) : select_category(i)
    \/ validate_form
    \/ get_steps_data
    \/ \E outcome \in Outcomes : create_list(outcome)
    \/ reject

Spec == Init /\ [][Next]_vars

----------------------------------------------------------------------------
(* The step collection alone: the freshly constructed dialog under         *)
(* add_step, delete_step, move_step_up, move_step_down and label edits.    *)

InitSteps ==
    /\ step_widgets = initial_steps(InitialSteps)
    /\ name_input = <<>>
    /\ name_validation_label = ""
    /\ common_tags_input = <<>>
    /\ categories = <<3>>
    /\ current_index = 0
    /\ dialog = "open"
    /\ last = Idle
    /\ SdConstructed(<<>>)

NextSteps ==
    \/ add_step(MaxSteps)
    \/ \E w \in WidgetIds : delete_step(w)
    \/ \E w \in WidgetIds : move_step_up(w)
    \/ \E w \in WidgetIds : move_step_down(w)
    \/ \E w \in WidgetIds, text \in StepLabels : edit_step_label(w, text)

SpecSteps == InitSteps /\ [][NextSteps]_vars

----------------------------------------------------------------------------
(* get_steps_data as a function of the name and the common tags text: the  *)
(* dialog with every name and tags text of the bounded sets typed in, and  *)
(* get_steps_data applied to it.                                           *)

Alphabet == {"a", "A", " ", ","}

RECURSIVE StringsUpTo(_)
StringsUpTo(n) ==
    IF n = 0 THEN {<<>>}
    ELSE LET shorter == StringsUpTo(n - 1)
         IN  shorter \cup {Append(s, c) : s \in shorter, c \in Alphabet}

WideTagInputs ==
    StringsUpTo(MaxTagLen)
        \cup {TxtExampleTags, TxtLista \o <<",", "a", ",">> \o TxtLista,
              <<"a", ",", " ", "a", " ", ",", "A", ",", ",", "a">>}

WideNameInputs ==
    {<<>>, <<" ">>, <<"a">>, <<"A">>, <<" ", "a", " ">>, <<"a", " ", "A">>,
     TxtLista, TxtDeploy}

InitTags ==
    /\ step_widgets \in
          {[initial_steps(InitialSteps) EXCEPT ![1].label = l1, ![2].label = l2] :
               l1 \in {TxtBuild, <<" ">>}, l2 \in {<<>>, <<"B", " ">>}}
    /\ name_input \in WideNameInputs
    /\ name_validation_label = ""
    /\ common_tags_input \in WideTagInputs
    /\ categories = <<3>>
    /\ current_index = 0
    /\ dialog = "open"
    /\ last = Idle
    /\ SdConstructed(<<>>)

NextTags == get_steps_data

SpecTags == InitTags /\ [][NextTags]_vars

----------------------------------------------------------------------------
(* get_steps_data as a function of the step collection: the dialog with    *)
(* up to MaxSteps steps and every labelling of them typed in.              *)

PayloadLabels == {<<>>, <<" ">>, TxtBuild, <<"B", " ">>}

LabelledSteps(n) ==
    {[i \in 1..n |-> [id |-> i, label |-> f[i], number |-> i]] :
         f \in [1..n -> PayloadLabels]}

InitPayload ==
    /\ \E n \in 1..MaxSteps : step_widgets \in LabelledSteps(n)
    /\ name_input \in {<<>>, TxtNightly}
    /\ name_validation_label = ""
    /\ common_tags_input \in TagInputs
    /\ categories = <<3>>
    /\ current_index = 0
    /\ dialog = "open"
    /\ last = Idle
    /\ SdConstructed(<<>>)

NextPayload == get_steps_data

SpecPayload == InitPayload /\ [][NextPayload]_vars

----------------------------------------------------------------------------
(* The speed dial dialog, constructed for a new record or for an existing  *)
(* one, beside a list creator dialog that is left alone.                   *)

TitleInputs == {<<>>, <<" ">>, TxtGoogle, <<" ">> \o TxtGoogle \o <<" ">>}

UrlInputs ==
    {<<>>, <<" ">>, TxtExampleCom, <<" ">> \o TxtExampleCom \o <<" ">>,
     TxtHttp \o TxtXCom, TxtHttps \o TxtXCom, <<"h", "t", "t", "p">>,
     <<"H", "T", "T", "P", ":", "/", "/">> \o TxtXCom}

IconInputs == {<<>>, <<" ">>, <<"G">>, <<"G", "o", "o">>}

Colors == {ColorDefault, ColorRed}

\* the records the constructor may be given: None, a full record, a record
\* with defaults to fill in, a record without an id, an empty dict
SpeedDialRecords ==
    {<<>>,
     <<[id |-> <<5>>, title |-> <<TxtGoogle>>, url |-> <<TxtHttps \o TxtXCom>>,
        icon |-> <<<<"G">>>>, background_color |-> <<ColorRed>>]>>,
     <<[id |-> <<6>>, title |-> <<TxtGoogle>>, url |-> <<TxtExampleCom>>,
        icon |-> <<>>, background_color |-> <<>>]>>,
     <<[id |-> <<>>, title |-> <<TxtGoogle>>, url |-> <<TxtXCom>>,
        icon |-> <<>>, background_color |-> <<>>]>>,
     <<[id |-> <<>>, title |-> <<>>, url |-> <<>>,
        icon |-> <<>>, background_color |-> <<>>]>>}

InitSD ==
    /\ step_widgets = initial_steps(InitialSteps)
    /\ name_input = <<>>
    /\ name_validation_label = ""
    /\ common_tags_input = <<>>
    /\ categories = <<3>>
    /\ current_index = 0
    /\ dialog = "open"
    /\ last = Idle
    /\ \E data \in SpeedDialRecords : SdConstructed(data)

NextSD ==
    \/ \E text \in TitleInputs : edit_title(text)
    \/ \E text \in UrlInputs : edit_url(text)
    \/ \E text \in IconInputs : edit_icon(text)
    \/ \E color \in Colors, valid \in BOOLEAN : choose_color(color, valid)
    \/ \E outcome \in SdOutcomes : save_speed_dial(outcome)
    \/ sd_reject

SpecSD == InitSD /\ [][NextSD]_vars

----------------------------------------------------------------------------
(* Properties *)

\* an entry without its displayed number: its identity and its label
Entries(seq) == [i \in 1..Len(seq) |-> <<seq[i].id, seq[i].label>>]

\* C1: in every reachable state of the dialog the step collection holds
\* N >= 1 entries and the entry at 0-based index i shows position i + 1.
C1_DensePositions ==
    /\ Len(step_widgets) >= 1
    /\ \A i \in 1..Len(step_widgets) : step_widgets[i].number = i

\* a deletion of the first of three entries has renumbered the two that remain
C1_Witness ==
    /\ last.op = "delete_step"
    /\ last.box = "none"
    /\ Len(step_widgets) = 2
    /\ last.arg = 1
    /\ step_widgets[1].id = 2
    /\ step_widgets[2].id = 3

\* C2: delete_step on a collection of one entry shows the minimum-1-step
\* warning and leaves the collection unchanged; on two or more entries it
\* removes exactly the requested entry and keeps the others in their order.
C2_DeleteStep ==
    [][last'.op = "delete_step" =>
          IF Len(step_widgets) = 1
          THEN /\ last'.box = "warning"
               /\ last'.msg = MsgMinSteps
               /\ step_widgets' = step_widgets
          ELSE LET Others(e) == e[1] # last'.arg
               IN  /\ last'.box = "none"
                   /\ Len(step_widgets') = Len(step_widgets) - 1
                   /\ Entries(step_widgets') = SelectSeq(Entries(step_widgets), Others)]_vars

\* the only entry was asked to be deleted and the warning was shown
C2_Witness ==
    /\ last.op = "delete_step"
    /\ last.box = "warning"
    /\ Len(step_widgets) = 1
    /\ last.arg = step_widgets[1].id

\* C3: move_step_up on the first entry and move_step_down on the last entry
\* change neither the collection nor any position, and report no error.
C3_BoundaryMovesAreNoOps ==
    [][\/ last'.op = "move_step_up" /\ step_widgets[1].id = last'.arg
       \/ last'.op = "move_step_down" /\ step_widgets[Len(step_widgets)].id = last'.arg
       => /\ step_widgets' = step_widgets
          /\ last'.box = "none"
          /\ ~last'.escaped]_vars

\* the first of three entries was asked to move up and is still the first
C3_Witness ==
    /\ last.op = "move_step_up"
    /\ last.index = 0
    /\ Len(step_widgets) = 3
    /\ last.arg = step_widgets[1].id

\* the four rules of the form, each as the specification words it
Rule1 == Strip(name_input) # <<>>
Rule2 == Len(Strip(name_input)) <= MaxNameLength
Rule3 == currentData # <<>>
Rule4 == \E i \in 1..Len(step_widgets) : Strip(step_widgets[i].label) # <<>>

\* C4: validate_form returns valid exactly when the four rules hold (name
\* non-blank after trim, trimmed name of at most 100 characters, a category
\* selected i.e. category_id non-null, a step with a non-blank label), and
\* otherwise the message of the first violated rule.
C4_ValidateForm ==
    last.op = "validate_form" =>
        /\ last.valid <=> (Rule1 /\ Rule2 /\ Rule3 /\ Rule4)
        /\ ~last.valid =>
              last.msg = IF ~Rule1 THEN MsgNameEmpty
                         ELSE IF ~Rule2 THEN MsgNameTooLong
                         ELSE IF ~Rule3 THEN MsgNoCategory
                         ELSE MsgNoSteps

\* the pieces of a text between its commas, taken by the positions of the commas
RECURSIVE Ascending(_)
Ascending(S) ==
    IF S = {} THEN <<>>
    ELSE LET m == CHOOSE x \in S : \A y \in S : x <= y
         IN  <<m>> \o Ascending(S \ {m})

CommaCuts(text) ==
    Ascending({0, Len(text) + 1} \cup {i \in 1..Len(text) : text[i] = ","})

TrimmedPieces(text) ==
    LET cuts == CommaCuts(text)
    IN  [k \in 1..(Len(cuts) - 1) |-> Strip(SubSeq(text, cuts[k] + 1, cuts[k + 1] - 1))]

\* the tag sequence the specification describes for a name and a tags text
ExpectedTags(name, text) ==
    LET auto == IF Strip(name) = <<>> THEN <<TxtLista>> ELSE <<TxtLista, Strip(name)>>
        pieces == TrimmedPieces(text)
        Kept(k) == /\ pieces[k] # <<>>
                   /\ pieces[k] \notin Range(auto)
                   /\ \A j \in 1..(k - 1) : pieces[j] # pieces[k]
        kept == SelectSeq([k \in 1..Len(pieces) |-> k], Kept)
    IN  auto \o [n \in 1..Len(kept) |-> pieces[kept[n]]]

\* C5: the tags get_steps_data gives every step are "lista", then the list
\* name unless blank, then the common tags (trimmed, empty ones dropped) in
\* input order without those that are already present, compared exactly.
C5_TagSequence ==
    last.op = "get_steps_data" =>
        \A i \in 1..Len(last.payload) :
            last.payload[i].tags = ExpectedTags(name_input, common_tags_input)

\* name "Deploy" and tags "git, Deploy, prod" gave lista, Deploy, git, prod
C5_Witness ==
    /\ last.op = "get_steps_data"
    /\ name_input = TxtDeploy
    /\ common_tags_input = TxtExampleTags
    /\ Len(last.payload) >= 1
    /\ last.payload[1].tags = <<TxtLista, TxtDeploy, <<"g", "i", "t">>, <<"p", "r", "o", "d">>>>

\* C6: no string occurs twice in the tags of any step of the payload.
C6_TagsUnique ==
    last.op = "get_steps_data" =>
        \A i \in 1..Len(last.payload) :
            \A j, k \in 1..Len(last.payload[i].tags) :
                j # k => last.payload[i].tags[j] # last.payload[i].tags[k]

C8_InvalidSubmitDoesNothing ==
    [][last'.op = "create_list" =>
          /\ ~(Rule1 /\ Rule2 /\ Truthy(currentData) /\ Rule4) =>
                /\ last'.box = "warning"
                /\ last'.msg = validate_form_result.msg
                /\ last'.msg # ""
                /\ last'.call = <<>>
                /\ last'.emit = <<>>
                /\ dialog' = "open"
                /\ form' = form
          /\ \A i \in 1..Len(last'.call) :
                /\ last'.call[i].list_name # <<>>
                /\ Strip(last'.call[i].list_name) = last'.call[i].list_name
                /\ Len(last'.call[i].list_name) <= MaxNameLength
                /\ currentData # <<>>
                /\ last'.call[i].category_id = currentData[1]]_vars

\* a submit with a good name and a labelled step but no category was refused
C8_Witness ==
    /\ last.op = "create_list"
    /\ last.box = "warning"
    /\ last.msg = MsgNoCategory
    /\ Rule1 /\ Rule2 /\ Rule4
    /\ dialog = "open"

\* C9: a create_list that passes validation calls the collaborator once with
\* (category_id, trimmed name, steps data); on success list_created is emitted
\* once with (name, category_id, returned item_ids) and the dialog is accepted;
\* on failure nothing is emitted and the dialog stays open with its form.
C9_ValidSubmit ==
    [][last'.op = "create_list" /\ validate_form_result.valid =>
          /\ last'.call = <<[category_id |-> currentData[1],
                             list_name |-> Strip(name_input),
                             items_data |-> get_steps_data_result]>>
          /\ last'.result = "success" =>
                /\ last'.emit = <<[list_name |-> Strip(name_input),
                                   category_id |-> currentData[1],
                                   item_ids |-> last'.item_ids]>>
                /\ dialog' = "accepted"
          /\ last'.result = "failure" =>
                /\ last'.emit = <<>>
                /\ last'.box = "critical"
                /\ dialog' = "open"
                /\ form' = form]_vars

\* one step "Build", category 3, name "Nightly", the service answered
\* (True, "ok", [42]): list_created("Nightly", 3, [42]) and the dialog closed
C9_Witness ==
    /\ last.op = "create_list"
    /\ Entries(step_widgets) = <<<<2, TxtBuild>>>>
    /\ last.emit = <<[list_name |-> TxtNightly, category_id |-> 3, item_ids |-> <<42>>]>>
    /\ dialog = "accepted"

\* C10: an exception of the persistence collaborator during submit does not
\* leave the submit handler, nothing is emitted and the dialog stays open.
C10_ExceptionsCaught ==
    /\ last.result = "raise" =>
          /\ ~last.escaped
          /\ last.emit = <<>>
          /\ dialog = "open"
    /\ sd_last.result = "raise" =>
          /\ ~sd_last.escaped
          /\ sd_last.emit = <<>>
          /\ sd_dialog = "open"

\* the URL the specification prescribes for a typed URL text
ExpectedUrl(text) ==
    LET trimmed == Strip(text)
        HasScheme(p) == \E n \in 0..Len(trimmed) : SubSeq(trimmed, 1, n) = p
    IN  IF HasScheme(TxtHttp) \/ HasScheme(TxtHttps) THEN trimmed ELSE TxtHttps \o trimmed

\* C11: the URL passed to the collaborator is the trimmed input when that
\* starts with http:// or https://, and https:// before the trimmed input
\* otherwise; a blank URL is a validation failure and is never submitted; so
\* every URL that reaches the collaborator starts with http:// or https://.
C11_UrlNormalization ==
    sd_last.op = "_save_speed_dial" =>
        /\ \A i \in 1..Len(sd_last.call) :
              /\ sd_last.call[i].url = ExpectedUrl(url_input)
              /\ \/ SubSeq(sd_last.call[i].url, 1, 7) = TxtHttp
                 \/ SubSeq(sd_last.call[i].url, 1, 8) = TxtHttps
        /\ Strip(url_input) = <<>> =>
              /\ sd_last.call = <<>>
              /\ sd_last.focus \in {"title", "url"}
              /\ sd_dialog = "open"

\* " example.com " reached the collaborator as https://example.com
C11_Witness ==
    /\ sd_last.op = "_save_speed_dial"
    /\ url_input = <<" ">> \o TxtExampleCom \o <<" ">>
    /\ Len(sd_last.call) = 1
    /\ sd_last.call[1].url = TxtHttps \o TxtExampleCom

\* C12: the mode is set at construction by whether a record was supplied and
\* never changes; an edit-mode dialog only ever calls update_speed_dial, with
\* the id of the supplied record, and a create-mode dialog only add_speed_dial.
C12_ModeIsFixed ==
    [][/\ is_edit_mode' = is_edit_mode
       /\ speed_dial_data' = speed_dial_data
       /\ is_edit_mode = (speed_dial_data # <<>>)
       /\ \A i \in 1..Len(sd_last'.call) :
             IF speed_dial_data # <<>>
             THEN /\ sd_last'.call[i].fn = "update_speed_dial"
                  /\ speed_dial_data[1].id # <<>>
                  /\ sd_last'.call[i].id = speed_dial_data[1].id
             ELSE sd_last'.call[i].fn = "add_speed_dial"]_vars

\* a dialog built for record 6, its title edited, saved with update_speed_dial(6, ...)
C12_Witness ==
    /\ is_edit_mode
    /\ speed_dial_data[1].id = <<6>>
    /\ Len(sd_last.call) = 1
    /\ sd_last.call[1].fn = "update_speed_dial"
    /\ sd_last.call[1].id = <<6>>
    /\ title_input # TxtGoogle
    /\ sd_dialog = "accepted"

\* C13: after a submit that reached the collaborator, a falsy result leaves
\* the dialog open without a notification; a truthy result closes it in both
\* modes, and speed_dial_added is emitted, once and before closing, only in
\* create mode, with the assigned id, the title, the normalized URL, the icon
\* (the default glyph when blank) and the background colour.
C13_ResultBranches ==
    sd_last.op = "_save_speed_dial" /\ sd_last.call # <<>> =>
        /\ sd_last.result = "falsy" =>
              /\ sd_dialog = "open"
              /\ sd_last.emit = <<>>
        /\ sd_last.result = "truthy" =>
              /\ sd_dialog = "accepted"
              /\ IF speed_dial_data # <<>>
                 THEN /\ sd_last.emit = <<>>
                      /\ sd_last.effects = <<"call", "accept">>
                 ELSE /\ sd_last.emit =
                            <<[id |-> sd_last.returned[1],
                               title |-> Strip(title_input),
                               url |-> ExpectedUrl(url_input),
                               icon |-> IF Strip(icon_input) = <<>> THEN TxtGlobe
                                        ELSE Strip(icon_input),
                               background_color |-> selected_color]>>
                      /\ sd_last.effects = <<"call", "emit", "accept">>

\* a new speed dial with a blank icon and a chosen colour was announced with id 7
C13_Witness ==
    /\ sd_last.op = "_save_speed_dial"
    /\ ~is_edit_mode
    /\ icon_input = <<" ">>
    /\ Len(sd_last.emit) = 1
    /\ sd_last.emit[1].id = 7
    /\ sd_last.emit[1].icon = TxtGlobe
    /\ sd_last.emit[1].background_color = ColorRed
    /\ sd_dialog = "accepted"

\* C14: the title is validated before the URL: a blank title fails with the
\* focus on the title field even when the URL is blank too, a blank URL with
\* a title fails with the focus on the URL field, and in both cases nothing
\* is called or emitted and the dialog stays open.
C14_ValidationOrder ==
    sd_last.op = "_save_speed_dial" =>
        /\ Strip(title_input) = <<>> =>
              /\ sd_last.focus = "title"
              /\ sd_last.call = <<>> /\ sd_last.emit = <<>> /\ sd_dialog = "open"
        /\ Strip(title_input) # <<>> /\ Strip(url_input) = <<>> =>
              /\ sd_last.focus = "url"
              /\ sd_last.call = <<>> /\ sd_last.emit = <<>> /\ sd_dialog = "open"

\* title and URL both blank: the focus went to the title
C14_Witness ==
    /\ sd_last.op = "_save_speed_dial"
    /\ title_input = <<" ">>
    /\ url_input = <<" ">>
    /\ sd_last.focus = "title"

\* C15: the live uniqueness check is advisory: create_list never asks
\* is_list_name_unique, and whatever the check answered on the last change of
\* the name, a create_list on a form that satisfies the four validation rules
\* calls the list-creation collaborator.
C15_UniquenessIsAdvisory ==
    [][last'.op = "create_list" =>
          /\ ~last'.queried
          /\ (Rule1 /\ Rule2 /\ Truthy(currentData) /\ Rule4) => Len(last'.call) = 1]_vars

\* the name was reported as taken, and the submit still called the collaborator
C15_Witness ==
    /\ last.op = "create_list"
    /\ name_validation_label = LblNotUnique
    /\ Len(last.call) = 1

\* C16: move_step_up at an index i > 0 (move_step_down at i < N - 1) swaps the
\* entry with its neighbour at i - 1 (i + 1) and changes nothing else: the
\* same entries with the same labels, N unchanged, the others at their index.
C16_MoveSwapsNeighbours ==
    [][last'.op \in {"move_step_up", "move_step_down"} =>
          LET E == Entries(step_widgets)
              N == Len(step_widgets)
              i == CHOOSE k \in 1..N : step_widgets[k].id = last'.arg
              j == IF last'.op = "move_step_up" THEN i - 1 ELSE i + 1
          IN  j \in 1..N =>
                  /\ Len(step_widgets') = N
                  /\ Entries(step_widgets') =
                        [k \in 1..N |-> IF k = i THEN E[j] ELSE IF k = j THEN E[i] ELSE E[k]]
                  /\ step_widgets'[j].id = last'.arg]_vars

\* the first of three entries was moved down and is now the second
C16_Witness ==
    /\ last.op = "move_step_down"
    /\ last.index = 0
    /\ Len(step_widgets) = 3
    /\ step_widgets[2].id = last.arg
    /\ step_widgets[2].label = TxtBuild
    /\ step_widgets[1].label = <<>>

\* C17: the steps of the payload are exactly the entries whose label is
\* non-blank, in the order of the collection, and every one of them carries
\* the same final tag sequence.
C17_PayloadSteps ==
    last.op = "get_steps_data" =>
        LET NonBlank(k) == Strip(step_widgets[k].label) # <<>>
            kept == SelectSeq([k \in 1..Len(step_widgets) |-> k], NonBlank)
        IN  /\ Len(last.payload) = Len(kept)
            /\ \A n \in 1..Len(kept) :
                  /\ last.payload[n].label = get_step_data(step_widgets[kept[n]]).label
                  /\ last.payload[n].tags = ExpectedTags(name_input, common_tags_input)

\* three steps with a blank one in the middle gave a payload of the other two
C17_Witness ==
    /\ last.op = "get_steps_data"
    /\ Len(step_widgets) = 3
    /\ step_widgets[2].label = <<" ">>
    /\ Len(last.payload) = 2
    /\ last.payload[1].label = TxtBuild
    /\ last.payload[2].label = <<"B">>
    /\ last.payload[1].tags = last.payload[2].tags

====
